---- MODULE Spec2Model ----
(***************************************************************************)
(* The sampling-decision engine of dd-opentracing-rs: the token-bucket     *)
(* Limiter (src/src/dd/limiter.rs), the hash-based PrioritySampler         *)
(* (src/src/dd/sample/priority_sampler.rs and its older copy               *)
(* src/src/priority_sampler.rs) and the RulesSampler that composes them    *)
(* (src/src/rules_sampler.rs).                                             *)
(*                                                                         *)
(* Time is counted in milliseconds of the monotonic clock.  An f64 accept  *)
(* ratio r is held as the integer r * RateScale, which is exact for every  *)
(* ratio the bounded model can form: arithmetic on ratios is that of the   *)
(* reals, f64 rounding is not modelled.                                    *)
(***************************************************************************)
EXTENDS Integers, Sequences, FiniteSets, TLC

VARIABLES
    now,        \* the time provider's relative_time (MockClock), in ms
    data,       \* Limiter.data: the LimitData behind the Mutex
    result,     \* what the last Limiter::allow call was given and returned
    calls,      \* how many allow() calls were made so far
    log,        \* the allow(1) calls of a caller that records them, oldest first
    priority_sampler,   \* per sampler: the PrioritySamplerData behind its Mutex
    sampled,            \* per sampler: its last sample() call under the
                        \* configuration it holds
    served,             \* per sampler: how many sample() calls it served
    lock,       \* the Mutex of Limiter.data: the thread that holds it, or 0
    pc,         \* per thread: where it is in Limiter::allow
    frame,      \* per thread: the locals of its call, and the data it locked
    returned,   \* per thread: the LimitResult of its last call
    bucket,     \* the tokens the last refill left, and those granted since
    configured,         \* per sampler: its last configure() call
    sample_rate,        \* what tests::configured::sampled_test last measured
    sampling_rules,     \* RulesSampler.sampling_rules, in registration order
    rule_sampled,       \* the last RulesSampler::sample call
    poisoned,           \* per Mutex: whether a thread panicked holding its guard
    lock_failed,        \* per Mutex: the calls in a row that lock() failed
    sampler_lock        \* the Mutex of the RulesSampler's PrioritySampler: the
                        \* thread that holds it, or 0

thread_vars == <<lock, pc, frame, returned, bucket, sampler_lock>>

limiter_vars == <<now, data, result, calls, log, thread_vars>>

sampler_vars == <<priority_sampler, sampled, served>>

rules_vars == <<configured, sample_rate, sampling_rules, rule_sampled>>

lock_vars == <<poisoned, lock_failed>>

vars == <<now, data, result, calls, log, priority_sampler, sampled, served,
          lock, pc, frame, returned, bucket,
          configured, sample_rate, sampling_rules, rule_sampled,
          poisoned, lock_failed, sampler_lock>>

(***************************************************************************)
(* Bounds of the model.                                                    *)
(***************************************************************************)
\* The clock stops advancing once it shows this many seconds.
MaxSeconds == 11
\* The same two bounds for the concurrent callers.
MaxThreadSeconds == 2
MaxThreadCalls == 3
\* At most this many allow() calls are made on one limiter.
MaxCalls == 3

\* At most this many sample() calls are made on one sampler.
MaxServed == 2

\* At most this many rules are added to one rules sampler.
MaxRules == 2

\* The calls in a row that are made on a Mutex whose lock() fails.
MaxLockFailures == 2

\* Duration::from_secs(1), in ms.
SecMs == 1000

\* vec![1.0; 9]
HistoryLen == 9

RECURSIVE GCD(_, _)
GCD(a, b) == IF b = 0 THEN a ELSE GCD(b, a % b)

RECURSIVE LCMUpTo(_)
LCMUpTo(n) == IF n <= 1 THEN 1 ELSE LET l == LCMUpTo(n - 1) IN (l * n) \div GCD(l, n)

\* The integer that stands for the ratio 1.0.
RateScale == LCMUpTo(IF MaxCalls >= MaxThreadCalls THEN MaxCalls ELSE MaxThreadCalls) * (HistoryLen + 1)

\* num_allowed as f64 / num_requested as f64
Ratio(num_allowed, num_requested) == (num_allowed * RateScale) \div num_requested

RECURSIVE SumSeq(_)
SumSeq(s) == IF s = <<>> THEN 0 ELSE Head(s) + SumSeq(Tail(s))

Min(a, b) == IF a <= b THEN a ELSE b

(***************************************************************************)
(* The clock steps of the mocked time source, and the calls made.          *)
(***************************************************************************)
Advances == {500, 1000, 9000}

TokensRequested == {0, 1, 2}

\* What the concurrent callers ask for.
ThreadTokensRequested == {1, 2}

\* (max_tokens, refresh_rate, tokens_per_refresh) of the limiters constructed.
LimiterConfigs ==
    { [max_tokens |-> 1, refresh_rate |-> 1, tokens_per_refresh |-> 1],
      [max_tokens |-> 2, refresh_rate |-> 2, tokens_per_refresh |-> 1],
      [max_tokens |-> 3, refresh_rate |-> 1, tokens_per_refresh |-> 2] }

(***************************************************************************)
(* LimitData::new                                                          *)
(***************************************************************************)
LimitData_new(t, max_tokens, refresh_rate, tokens_per_refresh) ==
    LET previous_rates == [i \in 1..HistoryLen |-> RateScale]
        refresh_interval == (SecMs \div refresh_rate) * tokens_per_refresh
    IN  [ num_tokens         |-> max_tokens,
          max_tokens         |-> max_tokens,
          refresh_interval   |-> refresh_interval,
          tokens_per_refresh |-> tokens_per_refresh,
          next_refresh       |-> t + refresh_interval,
          previous_rates     |-> previous_rates,
          previous_rates_sum |-> SumSeq(previous_rates),
          current_period     |-> t,
          num_allowed        |-> 0,
          num_requested      |-> 0 ]

(***************************************************************************)
(* Limiter::allow, statement by statement.  Sequences are 1-based:         *)
(* previous_rates[i] of the code is previous_rates[i + 1] here.            *)
(***************************************************************************)
\* The elapsed time rounded up to whole seconds.
WindowIntervals_rounded(d, t) == (t - d.current_period + SecMs - 1) \div SecMs

\* (now.relative_time - data.current_period).as_secs()
WindowIntervals(d, t) == (t - d.current_period) \div SecMs

\* The body of `if intervals >= data.previous_rates.len()`.
ResetRates(rates) ==
    [i \in 1..Len(rates) |-> IF i >= 2 THEN RateScale ELSE rates[i]]

\* The else branch without `extend_from_slice(&back)`.
RotateRates_truncated(rates, intervals, num_allowed, num_requested) ==
    LET closed == IF num_requested > 0
                  THEN Ratio(num_allowed, num_requested)
                  ELSE RateScale
    IN  [SubSeq(rates, 1, intervals) EXCEPT ![intervals] = closed]

\* The else branch with the history rotated left.
RotateRates_left(rates, intervals, num_allowed, num_requested) ==
    LET rotated == SubSeq(rates, intervals + 1, Len(rates))
                       \o SubSeq(rates, 1, intervals)
        closed == IF num_requested > 0
                  THEN Ratio(num_allowed, num_requested)
                  ELSE RateScale
    IN  [rotated EXCEPT ![intervals] = closed]

\* The else branch: back / truncate / extend_from_slice, then the two writes.
RotateRates(rates, intervals, num_allowed, num_requested) ==
    LET back == SubSeq(rates, 1, Len(rates) - intervals)
        rotated == SubSeq(rates, 1, intervals) \o back
        closed == IF num_requested > 0
                  THEN Ratio(num_allowed, num_requested)
                  ELSE RateScale
        written == [rotated EXCEPT ![intervals] = closed]
    IN  IF intervals > 2
        THEN [i \in 1..Len(written) |->
                 IF i <= intervals - 2 THEN RateScale ELSE written[i]]
        ELSE written

\* RollWindow without `previous_rates_sum = previous_rates.iter().sum()`.
RollWindow_stale_sum(d, t) ==
    LET intervals == WindowIntervals(d, t)
        rates == IF intervals >= Len(d.previous_rates)
                 THEN ResetRates(d.previous_rates)
                 ELSE RotateRates(d.previous_rates, intervals,
                                  d.num_allowed, d.num_requested)
    IN  IF intervals > 0
        THEN [d EXCEPT !.previous_rates = rates,
                       !.num_allowed = 0,
                       !.num_requested = 0,
                       !.current_period = t]
        ELSE d

\* The window roll: `if intervals > 0 { ... }`.
RollWindow(d, t) ==
    LET intervals == WindowIntervals(d, t)
        rates == IF intervals >= Len(d.previous_rates)
                 THEN ResetRates(d.previous_rates)
                 ELSE RotateRates(d.previous_rates, intervals,
                                  d.num_allowed, d.num_requested)
    IN  IF intervals > 0
        THEN [d EXCEPT !.previous_rates = rates,
                       !.previous_rates_sum = SumSeq(rates),
                       !.num_allowed = 0,
                       !.num_requested = 0,
                       !.current_period = t]
        ELSE d

\* data.num_requested += 1
CountRequest(d) == [d EXCEPT !.num_requested = @ + 1]

\* (now - next_refresh).as_nanos() / refresh_interval.as_nanos() + 1, or 0
\* when now < next_refresh and the refill is skipped.
RefillIntervals(d, t) ==
    IF t >= d.next_refresh
    THEN (t - d.next_refresh) \div d.refresh_interval + 1
    ELSE 0

\* Refill without the cap `if num_tokens > max_tokens`.
Refill_uncapped(d, t) ==
    LET intervals == RefillIntervals(d, t)
    IN  IF t >= d.next_refresh /\ intervals > 0
        THEN [d EXCEPT !.next_refresh = @ + d.refresh_interval * intervals,
                       !.num_tokens = intervals * d.tokens_per_refresh]
        ELSE d

\* Refill as a classic token bucket: the refill is added to what is left.
Refill_adds(d, t) ==
    LET intervals == RefillIntervals(d, t)
    IN  IF t >= d.next_refresh /\ intervals > 0
        THEN [d EXCEPT !.next_refresh = @ + d.refresh_interval * intervals,
                       !.num_tokens =
                           Min(d.max_tokens, @ + intervals * d.tokens_per_refresh)]
        ELSE d

\* Refill that moves next_refresh by one interval, however many passed.
Refill_one_step(d, t) ==
    LET intervals == RefillIntervals(d, t)
    IN  IF t >= d.next_refresh /\ intervals > 0
        THEN [d EXCEPT !.next_refresh = @ + d.refresh_interval,
                       !.num_tokens =
                           IF intervals * d.tokens_per_refresh > d.max_tokens
                           THEN d.max_tokens
                           ELSE intervals * d.tokens_per_refresh]
        ELSE d

\* The refill: `if now.relative_time >= data.next_refresh { ... }`.
Refill(d, t) ==
    LET intervals == RefillIntervals(d, t)
    IN  IF t >= d.next_refresh /\ intervals > 0
        THEN [d EXCEPT !.next_refresh = @ + d.refresh_interval * intervals,
                       !.num_tokens =
                           IF intervals * d.tokens_per_refresh > d.max_tokens
                           THEN d.max_tokens
                           ELSE intervals * d.tokens_per_refresh]
        ELSE d

\* The comparison written `>`.
Allowed_strict(d, tokens_requested) == d.num_tokens > tokens_requested

\* data.num_tokens >= tokens_requested
Allowed(d, tokens_requested) == d.num_tokens >= tokens_requested

\* A grant that counts the call twice.
Grant_twice(d, tokens_requested) ==
    [d EXCEPT !.num_allowed = @ + 2,
              !.num_tokens = @ - tokens_requested]

\* A grant that takes no token.
Grant_free(d, tokens_requested) ==
    [d EXCEPT !.num_allowed = @ + 1]

\* data.num_allowed += 1; data.num_tokens -= tokens_requested
Grant(d, tokens_requested) ==
    [d EXCEPT !.num_allowed = @ + 1,
              !.num_tokens = @ - tokens_requested]

\* A decision whose denied call takes the tokens that are left.
Decide_drains(d, tokens_requested) ==
    IF d.num_tokens >= tokens_requested
    THEN [d EXCEPT !.num_allowed = @ + 1, !.num_tokens = @ - tokens_requested]
    ELSE [d EXCEPT !.num_tokens = 0]

\* The decision: `let allowed = if ... { ... } else { false }`.
Decide(d, tokens_requested) ==
    IF Allowed(d, tokens_requested) THEN Grant(d, tokens_requested) ELSE d

\* (previous_rates_sum + num_allowed / num_requested) / (len + 1)
EffectiveRate(d) ==
    (d.previous_rates_sum + Ratio(d.num_allowed, d.num_requested))
        \div (Len(d.previous_rates) + 1)

\* The data as the decision finds it: rolled, counted, refilled.
BeforeDecision(d, t) == Refill(CountRequest(RollWindow(d, t)), t)

\* The whole call: the data it leaves and the LimitResult it returns.
allow(d, t, tokens_requested) ==
    LET refilled == BeforeDecision(d, t)
        decided == Decide(refilled, tokens_requested)
    IN  [ data           |-> decided,
          allowed        |-> Allowed(refilled, tokens_requested),
          effective_rate |-> EffectiveRate(decided) ]


(***************************************************************************)
(* 64-bit and 128-bit unsigned integers, as little-endian sequences of     *)
(* bytes: a u64 is 8 bytes, the u128 product of two u64 is 16.             *)
(***************************************************************************)
Byte == 2^8

U64Bytes == 2^3

RECURSIVE ToBytes(_, _)
ToBytes(n, len) ==
    IF len = 0 THEN <<>> ELSE <<n % Byte>> \o ToBytes(n \div Byte, len - 1)

\* The u64 of a small number.
U64(n) == ToBytes(n, U64Bytes)

\* std::u64::MAX
U64_MAX == [i \in 1..U64Bytes |-> Byte - 1]

RECURSIVE ColumnSum(_, _, _, _)
\* The sum of a[i] * b[j] over i + j = k + 1, from i on.
ColumnSum(a, b, k, i) ==
    IF i > Len(a) THEN 0
    ELSE (IF k + 1 - i \in 1..Len(b) THEN a[i] * b[k + 1 - i] ELSE 0)
             + ColumnSum(a, b, k, i + 1)

RECURSIVE MulFrom(_, _, _, _)
MulFrom(a, b, k, carry) ==
    IF k > Len(a) + Len(b) THEN <<>>
    ELSE LET col == carry + ColumnSum(a, b, k, 1)
         IN  <<col % Byte>> \o MulFrom(a, b, k + 1, col \div Byte)

\* a as u128 * b as u128: the full product, which cannot overflow.
WideMul(a, b) == MulFrom(a, b, 1, 0)

\* x as u64, of a u128
AsU64(x) == SubSeq(x, 1, U64Bytes)

\* Whether a u128 has a bit set above the low 64.
ExceedsU64(x) == \E i \in (U64Bytes + 1)..Len(x) : x[i] # 0

RECURSIVE LessFrom(_, _, _)
LessFrom(a, b, i) ==
    IF i = 0 THEN FALSE
    ELSE IF a[i] # b[i] THEN a[i] < b[i]
    ELSE LessFrom(a, b, i - 1)

\* a < b, of two integers of the same width
Less(a, b) == LessFrom(a, b, Len(a))

(***************************************************************************)
(* f64 rates.  The rates of the model are dyadic, num / 2^exp with num odd *)
(* or zero, which f64 and f32 hold exactly.                                *)
(***************************************************************************)
F64(num, exp) == [num |-> num, exp |-> exp]

IsOne(rate) == rate.num = 2^rate.exp

NaN == [nan |-> TRUE]

\* pub(crate) const CONSTANT_RATE_HASH_FACTOR: u64 = 1111111111111111111
CONSTANT_RATE_HASH_FACTOR == <<199, 113, 196, 43, 171, 117, 107, 15>>

\* const PRIORITY_SAMPLER_DEFAULT_RATE_KEY: &str = "service:,env:"
PRIORITY_SAMPLER_DEFAULT_RATE_KEY == "service:,env:"

\* (rate * MAX_TRACE_ID_DOUBLE) as u64, MAX_TRACE_ID_DOUBLE = u64::MAX as f64
\* = 2^64: the product num * 2^(64 - exp), the cast saturating at u64::MAX.
ScaleToU64(rate) ==
    LET top == rate.num * 2^(8 - rate.exp)
    IN  IF top >= Byte
        THEN U64_MAX
        ELSE [i \in 1..U64Bytes |-> IF i = U64Bytes THEN top ELSE 0]

\* tools::max_id_from_sample_rate
max_id_from_sample_rate(rate) ==
    IF IsOne(rate) THEN U64_MAX
    ELSE IF rate.num > 0 THEN ScaleToU64(rate)
    ELSE U64(0)

(***************************************************************************)
(* PrioritySampler                                                         *)
(***************************************************************************)
SamplerIds == {1, 2}

Environments == {"", "prod"}

Services == {"", "nginx"}

\* 0, 1, 16, 17 (the least trace id whose product with the hash factor
\* exceeds 64 bits), 2^63 (hashed to 2^63), 15049745075899203593 (hashed to
\* u64::MAX) and u64::MAX.
TraceIds ==
    { U64(0), U64(1), U64(16), U64(17),
      <<0, 0, 0, 0, 0, 0, 0, 128>>,
      <<9, 0, 40, 217, 104, 111, 219, 208>>,
      U64_MAX }

Number(rate) == [kind |-> "number", rate |-> rate]

\* The serde_json Values configure() is given.  The entries of an object
\* are in the order its Map iterates them, the order of the keys.
Payloads ==
    << [ kind |-> "object",
         entries |-> << <<"service:nginx,env:", Number(F64(3, 2))>>,
                        <<"service:nginx,env:prod", Number(F64(1, 2))>> >> ],
       [ kind |-> "object",
         entries |-> << <<"service:,env:", Number(F64(1, 1))>>,
                        <<"service:nginx,env:", Number(F64(1, 0))>> >> ],
       [ kind |-> "object",
         entries |-> << <<"service:,env:", Number(F64(0, 0))>>,
                        <<"service:nginx,env:", Number(F64(1, 1))>>,
                        <<"service:nginx,env:prod", [kind |-> "string"]>> >> ],
       [ kind |-> "array" ] >>

SamplerKeep == "SamplerKeep"

SamplerDrop == "SamplerDrop"

\* PrioritySampler::new
PrioritySampler_new ==
    [ agent_sampling_rates |-> [k \in {} |-> 0],
      default_sampling_rate |-> [rate |-> F64(1, 0), max_hash |-> U64_MAX] ]

\* The key written `env:{},service:{}`.
Key_swapped(service, environment) == "env:" \o environment \o ",service:" \o service

\* format!("service:{},env:{}", service, environment)
Key(service, environment) == "service:" \o service \o ",env:" \o environment

\* applied_rate: the default rate, or the rule stored under the key.
AppliedRate(d, service, environment) ==
    IF Key(service, environment) \in DOMAIN d.agent_sampling_rates
    THEN d.agent_sampling_rates[Key(service, environment)]
    ELSE d.default_sampling_rate

\* The trace ids tests::configured::sampled_test draws: in place of the
\* 100,000 outputs of its Mersenne twister, the multiples of 2^61, whose
\* hashes cut to 64 bits are again the multiples of 2^61, evenly spread over
\* the u64 range.
SampledTestIds ==
    { [i \in 1..U64Bytes |-> IF i = U64Bytes THEN j * 2^5 ELSE 0] : j \in 0..7 }

\* The products of the model's trace ids, computed once.
HashedIds ==
    [t \in TraceIds \cup SampledTestIds |-> WideMul(t, CONSTANT_RATE_HASH_FACTOR)]

\* trace_id as u128 * CONSTANT_RATE_HASH_FACTOR as u128
HashedId(trace_id) == HashedIds[trace_id]

\* if hashed_id as u64 >= applied_rate.max_hash { Drop } else { Keep }
Priority(hashed_id, max_hash) ==
    IF ~Less(AsU64(hashed_id), max_hash) THEN SamplerDrop ELSE SamplerKeep

\* SampleResult { priority_rate, sampling_priority, ..Default::default() }
SampleResult(applied_rate, sampling_priority) ==
    [ rule_rate |-> F64(0, 0),
      limiter_rate |-> F64(0, 0),
      priority_rate |-> applied_rate.rate,
      sampling_priority |-> sampling_priority ]

\* PrioritySampler::sample of dd/sample/priority_sampler.rs: the outcomes of
\* a call.
sample(d, environment, service, trace_id) ==
    LET applied_rate == AppliedRate(d, service, environment)
        hashed_id == HashedId(trace_id)
    IN  { [ outcome |-> "ok", overflowed |-> FALSE,
            value |-> SampleResult(applied_rate,
                                   Priority(hashed_id, applied_rate.max_hash)) ] }

\* PrioritySampler::sample of priority_sampler.rs, which multiplies
\* trace_id * CONSTANT_RATE_HASH_FACTOR in u64: when the product exceeds 64
\* bits a build with overflow checks panics, and one without wraps.
sample_u64(d, environment, service, trace_id) ==
    LET applied_rate == AppliedRate(d, service, environment)
        hashed_id == HashedId(trace_id)
        wrapped == [ outcome |-> "ok", overflowed |-> ExceedsU64(hashed_id),
                     value |-> SampleResult(applied_rate,
                                   Priority(hashed_id, applied_rate.max_hash)) ]
    IN  IF ExceedsU64(hashed_id)
        THEN { wrapped,
               [ outcome |-> "panic", overflowed |-> TRUE, value |-> NaN ] }
        ELSE { wrapped }

\* A sampler that falls back to dropping once it has served a call.
AfterSample_spends(d) ==
    [d EXCEPT !.default_sampling_rate = [rate |-> F64(0, 0), max_hash |-> U64(0)]]

\* What sample() leaves of the data: it takes &self and only reads.
AfterSample(d) == d

\* rates.insert(key.clone(), new_rate)
Insert(rates, key, new_rate) ==
    [k \in (DOMAIN rates) \cup {key} |-> IF k = key THEN new_rate ELSE rates[k]]

RECURSIVE ConfigureLoop_merged(_, _, _)
\* A loop that inserts into the table it finds, and so merges.
ConfigureLoop_merged(d, rates, entries) ==
    IF entries = <<>>
    THEN [data |-> d, ok |-> TRUE]
    ELSE LET key == Head(entries)[1]
             value == Head(entries)[2]
             new_rate == [ rate |-> value.rate,
                           max_hash |-> max_id_from_sample_rate(value.rate) ]
         IN  IF value.kind # "number"
             THEN [data |-> d, ok |-> FALSE]
             ELSE IF key = PRIORITY_SAMPLER_DEFAULT_RATE_KEY
             THEN ConfigureLoop_merged([d EXCEPT !.default_sampling_rate = new_rate],
                                       rates, Tail(entries))
             ELSE ConfigureLoop_merged(
                      [d EXCEPT !.agent_sampling_rates = Insert(@, key, new_rate)],
                      rates, Tail(entries))

RECURSIVE ConfigureLoop_partial(_, _, _)
\* A loop that stores the rates it has read when it meets a value that is
\* not a number.
ConfigureLoop_partial(d, rates, entries) ==
    IF entries = <<>>
    THEN [data |-> [d EXCEPT !.agent_sampling_rates = rates], ok |-> TRUE]
    ELSE LET key == Head(entries)[1]
             value == Head(entries)[2]
             new_rate == [ rate |-> value.rate,
                           max_hash |-> max_id_from_sample_rate(value.rate) ]
         IN  IF value.kind # "number"
             THEN [data |-> [d EXCEPT !.agent_sampling_rates = rates], ok |-> FALSE]
             ELSE IF key = PRIORITY_SAMPLER_DEFAULT_RATE_KEY
             THEN ConfigureLoop_partial([d EXCEPT !.default_sampling_rate = new_rate],
                                        rates, Tail(entries))
             ELSE ConfigureLoop_partial(d, Insert(rates, key, new_rate),
                                        Tail(entries))

RECURSIVE ConfigureLoop(_, _, _)
\* `for (key, value) in object { ... }`, then the assignment of the table.
ConfigureLoop(d, rates, entries) ==
    IF entries = <<>>
    THEN [data |-> [d EXCEPT !.agent_sampling_rates = rates], ok |-> TRUE]
    ELSE LET key == Head(entries)[1]
             value == Head(entries)[2]
         IN  IF value.kind # "number"
             THEN [data |-> d, ok |-> FALSE]
             ELSE LET new_rate == [ rate |-> value.rate,
                                    max_hash |-> max_id_from_sample_rate(value.rate) ]
                  IN  IF key = PRIORITY_SAMPLER_DEFAULT_RATE_KEY
                      THEN ConfigureLoop([d EXCEPT !.default_sampling_rate = new_rate],
                                         rates, Tail(entries))
                      ELSE ConfigureLoop(d, Insert(rates, key, new_rate),
                                         Tail(entries))

\* PrioritySampler::configure: the data it leaves and whether it returned Ok.
configure(d, config) ==
    IF config.kind # "object"
    THEN [data |-> d, ok |-> FALSE]
    ELSE ConfigureLoop(d, [k \in {} |-> 0], config.entries)

\* PrioritySampler::max_id_from_sample_rate of priority_sampler.rs.  Its
\* MAX_TRACE_ID_DOUBLE is std::f64::MAX, above 2^1023: the product with any
\* rate of at least 2^-959, so with every positive rate of the model, is
\* beyond the u64 range, and the cast to u64 saturates.
PrioritySampler_max_id_from_sample_rate(rate) ==
    IF IsOne(rate) THEN U64_MAX
    ELSE IF rate.num > 0 THEN U64_MAX
    ELSE U64(0)

RECURSIVE PrioritySampler_ConfigureLoop(_, _, _)
\* The loop of PrioritySampler::configure of priority_sampler.rs.
PrioritySampler_ConfigureLoop(d, rates, entries) ==
    IF entries = <<>>
    THEN [data |-> [d EXCEPT !.agent_sampling_rates = rates], ok |-> TRUE]
    ELSE LET key == Head(entries)[1]
             value == Head(entries)[2]
         IN  IF value.kind # "number"
             THEN [data |-> d, ok |-> FALSE]
             ELSE LET new_rate ==
                          [ rate |-> value.rate,
                            max_hash |->
                                PrioritySampler_max_id_from_sample_rate(value.rate) ]
                  IN  IF key = PRIORITY_SAMPLER_DEFAULT_RATE_KEY
                      THEN PrioritySampler_ConfigureLoop(
                               [d EXCEPT !.default_sampling_rate = new_rate],
                               rates, Tail(entries))
                      ELSE PrioritySampler_ConfigureLoop(
                               d, Insert(rates, key, new_rate), Tail(entries))

\* PrioritySampler::configure of priority_sampler.rs
PrioritySampler_configure(d, config) ==
    IF config.kind # "object"
    THEN [data |-> d, ok |-> FALSE]
    ELSE PrioritySampler_ConfigureLoop(d, [k \in {} |-> 0], config.entries)

\* The loop of tests::configured::sampled_test on the sampler of
\* dd/sample/priority_sampler.rs: count_sampled and total.
sampled_test(d, environment, service) ==
    LET kept == { t \in SampledTestIds :
                    \E o \in sample(d, environment, service, t) :
                        o.value.sampling_priority = SamplerKeep }
    IN  { [ outcome |-> "ok", count_sampled |-> Cardinality(kept),
            total |-> Cardinality(SampledTestIds) ] }

\* The same loop on the sampler of priority_sampler.rs: the test panics
\* with the first call that does.
sampled_test_u64(d, environment, service) ==
    LET outcomes(t) == sample_u64(d, environment, service, t)
        kept == { t \in SampledTestIds :
                    \E o \in outcomes(t) :
                        /\ o.outcome = "ok"
                        /\ o.value.sampling_priority = SamplerKeep }
        counted == [ outcome |-> "ok", count_sampled |-> Cardinality(kept),
                     total |-> Cardinality(SampledTestIds) ]
    IN  IF \E t \in SampledTestIds : \E o \in outcomes(t) : o.outcome = "panic"
        THEN { counted, [ outcome |-> "panic", count_sampled |-> 0, total |-> 0 ] }
        ELSE { counted }

(***************************************************************************)
(* RulesSampler (rules_sampler.rs), with the Limiter of dd/limiter.rs, the *)
(* max_id_from_sample_rate of dd/tools.rs and the PrioritySampler of       *)
(* dd/sample/priority_sampler.rs, whose SampleResult it constructs.        *)
(***************************************************************************)
\* The operation names sample() is given.
Names == {"", "GET"}

\* The trace ids given to the rules sampler: 0, 1, 16 and 2^63.
RuleTraceIds == { U64(0), U64(1), U64(16), <<0, 0, 0, 0, 0, 0, 0, 128>> }

\* The rule callbacks add_rule is given.  A rule of the model is a closure
\* over a service, a name ("*" for any) and the rate it returns on a match.
Rules ==
    { [ service |-> "nginx", name |-> "*", rate |-> F64(0, 0) ],
      [ service |-> "*", name |-> "GET", rate |-> F64(3, 2) ],
      [ service |-> "*", name |-> "*", rate |-> F64(1, 0) ] }

\* RuleResult::new
RuleResult_new == [ matched |-> FALSE, rate |-> NaN ]

\* rule(service, name), the call of a callback
Rule(rule, service, name) ==
    IF rule.service \in {"*", service} /\ rule.name \in {"*", name}
    THEN [ matched |-> TRUE, rate |-> rule.rate ]
    ELSE RuleResult_new

RECURSIVE MatchFrom_last(_, _, _, _, _)
\* A loop that goes on after a match and returns the last one.
MatchFrom_last(rules, service, name, i, invoked) ==
    IF i > Len(rules)
    THEN LET hits == { j \in 1..Len(rules) : Rule(rules[j], service, name).matched }
         IN  [ result |-> IF hits = {} THEN RuleResult_new
                          ELSE Rule(rules[CHOOSE j \in hits : \A k \in hits : k <= j],
                                    service, name),
               invoked |-> invoked ]
    ELSE MatchFrom_last(rules, service, name, i + 1, Append(invoked, i))

RECURSIVE MatchFrom(_, _, _, _, _)
\* `for rule in &self.sampling_rules { ... }` from the i-th rule on;
\* invoked lists the callbacks called so far, in the order of the calls.
MatchFrom(rules, service, name, i, invoked) ==
    IF i > Len(rules)
    THEN [ result |-> RuleResult_new, invoked |-> invoked ]
    ELSE LET rule_result == Rule(rules[i], service, name)
         IN  IF rule_result.matched
             THEN [ result |-> rule_result, invoked |-> Append(invoked, i) ]
             ELSE MatchFrom(rules, service, name, i + 1, Append(invoked, i))

\* RulesSampler::match_rule
match_rule(rules, service, name) == MatchFrom(rules, service, name, 1, <<>>)

\* SampleResult::new
SampleResult_new ==
    [ rule_rate |-> NaN, limiter_rate |-> NaN, priority_rate |-> NaN,
      sampling_priority |-> "None" ]

\* An f64 that holds an effective rate of the limiter.
LimiterRate(effective_rate) == [ scaled |-> effective_rate ]

\* max_hash as u128
AsU128(x) == x \o [i \in 1..U64Bytes |-> 0]

\* hashed_id > max_hash as u128
HashRejects(hashed_id, max_hash) == Less(AsU128(max_hash), hashed_id)

\* A delegation that passes the service for the environment.
Delegated_swapped(d, ps, environment, service, trace_id) ==
    { [ outcome |-> o.outcome, value |-> o.value, data |-> d,
        limiter_calls |-> <<>> ] :
          o \in sample(ps, service, environment, trace_id) }

\* return self.priority_sampler.sample(environment, service, trace_id)
Delegated(d, ps, environment, service, trace_id) ==
    { [ outcome |-> o.outcome, value |-> o.value, data |-> d,
        limiter_calls |-> <<>> ] :
          o \in sample(ps, environment, service, trace_id) }

\* A rejection that counts the request in the limiter.
RuleRejected_counted(rule_result, d) ==
    [ outcome |-> "ok",
      value |-> [SampleResult_new EXCEPT !.rule_rate = rule_result.rate,
                                         !.sampling_priority = SamplerDrop],
      data |-> CountRequest(d),
      limiter_calls |-> <<>> ]

\* The return of a trace the hash test rejects.
RuleRejected(rule_result, d) ==
    [ outcome |-> "ok",
      value |-> [SampleResult_new EXCEPT !.rule_rate = rule_result.rate,
                                         !.sampling_priority = SamplerDrop],
      data |-> d,
      limiter_calls |-> <<>> ]

\* self.limiter.allow(1) and the result made of it; limiter_calls lists
\* the tokens requested of the limiter by the call.
Limited(rule_result, d, t) ==
    LET limit_result == allow(d, t, 1)
    IN  [ outcome |-> "ok",
          value |-> [SampleResult_new EXCEPT
                        !.rule_rate = rule_result.rate,
                        !.limiter_rate = LimiterRate(limit_result.effective_rate),
                        !.sampling_priority =
                            IF limit_result.allowed THEN SamplerKeep
                            ELSE SamplerDrop],
          data |-> limit_result.data,
          limiter_calls |-> <<1>> ]

\* RulesSampler::sample: the outcomes of a call at time t on the limiter
\* data d, the rules and the priority sampler data ps.
RulesSampler_sample(rules, d, ps, t, environment, service, name, trace_id) ==
    LET rule_result == match_rule(rules, service, name).result
    IN  IF ~rule_result.matched
        THEN Delegated(d, ps, environment, service, trace_id)
        ELSE LET max_hash == max_id_from_sample_rate(rule_result.rate)
                 hashed_id == HashedId(trace_id)
             IN  IF HashRejects(hashed_id, max_hash)
                 THEN { RuleRejected(rule_result, d) }
                 ELSE { Limited(rule_result, d, t) }

(***************************************************************************)
(* The sequential limiter: one caller, a mocked clock.                     *)
(***************************************************************************)
NoResult == [ called |-> FALSE, at |-> 0, tokens_requested |-> 0,
              allowed |-> FALSE, effective_rate |-> 0,
              window_intervals |-> 0, refill_intervals |-> 0,
              tokens_before |-> 0, next_refresh_before |-> 0 ]

InitLimiter ==
    /\ now = 0
    /\ \E c \in LimiterConfigs :
          data = LimitData_new(0, c.max_tokens, c.refresh_rate, c.tokens_per_refresh)
    /\ result = NoResult
    /\ calls = 0
    /\ log = <<>>

NoSample == [ called |-> FALSE ]

Threads == {1, 2}

InitThreads ==
    /\ lock = 0
    /\ sampler_lock = 0
    /\ pc = [t \in Threads |-> "idle"]
    /\ frame = [t \in Threads |-> [ now |-> 0, tokens_requested |-> 0,
                                     allowed |-> FALSE, locked |-> data ]]
    /\ returned = [t \in Threads |-> [called |-> FALSE]]
    /\ bucket = [tokens |-> data.num_tokens, granted |-> 0]

NoConfigure == [ called |-> FALSE ]

NoSampledTest == [ called |-> FALSE ]

InitSampler ==
    /\ priority_sampler = [s \in SamplerIds |-> PrioritySampler_new]
    /\ sampled = [s \in SamplerIds |-> NoSample]
    /\ served = [s \in SamplerIds |-> 0]
    /\ configured = [s \in SamplerIds |-> NoConfigure]
    /\ sample_rate = NoSampledTest

\* RulesSampler::new: no rule yet.
InitRules ==
    /\ sampling_rules = <<>>
    /\ rule_sampled = NoSample

\* The Mutex of Limiter.data.
LimiterMutex == 0

\* The Mutexes of the model: the limiter's, and each sampler's under the
\* sampler's id.
Mutexes == {LimiterMutex} \cup SamplerIds

\* Mutex::new: not poisoned, and no call has failed on it.
InitLocks ==
    /\ poisoned = [m \in Mutexes |-> FALSE]
    /\ lock_failed = [m \in Mutexes |-> [in_a_row |-> 0, ops |-> {}]]

Init == InitLimiter /\ InitSampler /\ InitThreads /\ InitRules /\ InitLocks

\* A failed lock() that counts the request all the same.
LockFailed_counted(m, op) ==
    /\ poisoned[m]
    /\ lock_failed[m].in_a_row < MaxLockFailures
    /\ lock_failed' = [lock_failed EXCEPT
                           ![m] = [in_a_row |-> @.in_a_row + 1,
                                   ops |-> @.ops \cup {op}]]
    /\ data' = [data EXCEPT !.num_requested = @ + 1]
    /\ UNCHANGED <<now, result, calls, log, thread_vars, sampler_vars,
                   rules_vars, poisoned>>

\* self.data.lock().map_err(|_| eyre!("mutex lock failed"))? on a poisoned
\* Mutex: lock() returns Err, `?` returns it to the caller, and the
\* PoisonError that holds the guard is dropped.  Nothing clears the poison.
LockFailed(m, op) ==
    /\ poisoned[m]
    /\ lock_failed[m].in_a_row < MaxLockFailures
    /\ lock_failed' = [lock_failed EXCEPT
                           ![m] = [in_a_row |-> @.in_a_row + 1,
                                   ops |-> @.ops \cup {op}]]
    /\ UNCHANGED <<limiter_vars, sampler_vars, rules_vars, poisoned>>

\* The division of the refill by refresh_interval.as_nanos() when that is
\* zero: the call panics with the guard held.
RefillPanics(d, t) == t >= d.next_refresh /\ d.refresh_interval = 0

\* A call of allow() that panics in the refill: the roll and
\* num_requested += 1 are done, the guard is dropped by the unwinding and
\* the Mutex is poisoned.
AllowPanics ==
    /\ data' = CountRequest(RollWindow(data, now))
    /\ poisoned' = [poisoned EXCEPT ![LimiterMutex] = TRUE]
    /\ UNCHANGED <<result, lock_failed>>

\* MockClock::advance
AdvanceClock ==
    /\ \E d \in Advances :
          /\ now + d <= MaxSeconds * SecMs
          /\ now' = now + d
    /\ UNCHANGED <<data, result, calls, log, sampler_vars, thread_vars, rules_vars,
                   lock_vars>>

\* The record of a call: its arguments, its LimitResult, and what it found.
ResultOf(d, t, n) ==
    LET r == allow(d, t, n)
        counted == CountRequest(RollWindow(d, t))
    IN  [ called |-> TRUE, at |-> t, tokens_requested |-> n,
          allowed |-> r.allowed,
          effective_rate |-> r.effective_rate,
          window_intervals |-> WindowIntervals(d, t),
          refill_intervals |-> RefillIntervals(counted, t),
          tokens_before |-> d.num_tokens,
          next_refresh_before |-> d.next_refresh ]

\* limiter.allow(tokens_requested)
Allow ==
    IF poisoned[LimiterMutex]
    THEN LockFailed(LimiterMutex, "allow")
    ELSE /\ calls < MaxCalls
         /\ \E n \in TokensRequested :
               IF RefillPanics(CountRequest(RollWindow(data, now)), now)
               THEN AllowPanics
               ELSE /\ data' = allow(data, now, n).data
                    /\ result' = ResultOf(data, now, n)
                    /\ UNCHANGED lock_vars
         /\ calls' = calls + 1
         /\ UNCHANGED <<now, log, sampler_vars, thread_vars, rules_vars>>

\* limiter.allow(1), as the tests call it, the results kept by the caller
AllowOne ==
    /\ ~poisoned[LimiterMutex]
    /\ ~RefillPanics(CountRequest(RollWindow(data, now)), now)
    /\ calls < MaxCalls
    /\ data' = allow(data, now, 1).data
    /\ result' = ResultOf(data, now, 1)
    /\ calls' = calls + 1
    /\ log' = Append(log, [at |-> now, allowed |-> allow(data, now, 1).allowed])
    /\ UNCHANGED <<now, sampler_vars, thread_vars, rules_vars, lock_vars>>

NextLimiter == AdvanceClock \/ Allow

SpecLimiter == Init /\ [][NextLimiter]_vars

NextFresh == AdvanceClock \/ AllowOne

SpecFresh == Init /\ [][NextFresh]_vars


(***************************************************************************)
(* Concurrent callers of one limiter.  A call is the steps of              *)
(* Limiter::allow between taking the Mutex and dropping its guard.         *)
(***************************************************************************)
\* The Mutex taken whether or not another thread holds it.
LockFree_always == TRUE

\* self.data.lock() returns once no other thread holds the Mutex.
LockFree == lock = 0

\* let mut data = self.data.lock()...; let now = (data.time_provider)();
Lock(t) ==
    /\ pc[t] = "idle"
    /\ calls < MaxThreadCalls
    /\ LockFree
    /\ ~poisoned[LimiterMutex]
    /\ lock' = t
    /\ \E n \in ThreadTokensRequested :
          frame' = [frame EXCEPT ![t] = [ now |-> now, tokens_requested |-> n,
                                          allowed |-> FALSE, locked |-> data ]]
    /\ pc' = [pc EXCEPT ![t] = "locked"]
    /\ calls' = calls + 1
    /\ UNCHANGED <<now, data, result, log, returned, bucket, sampler_lock,
                   sampler_vars, rules_vars, lock_vars>>

\* The window roll.
Roll(t) ==
    /\ pc[t] = "locked"
    /\ data' = RollWindow(data, frame[t].now)
    /\ pc' = [pc EXCEPT ![t] = "rolled"]
    /\ UNCHANGED <<now, result, calls, log, lock, sampler_lock, frame, returned, bucket,
                   sampler_vars, rules_vars, lock_vars>>

\* data.num_requested += 1 and the refill.
CountAndRefill(t) ==
    /\ pc[t] = "rolled"
    /\ data' = Refill(CountRequest(data), frame[t].now)
    /\ bucket' = IF RefillIntervals(data, frame[t].now) > 0
                 THEN [tokens |-> data'.num_tokens, granted |-> 0]
                 ELSE bucket
    /\ pc' = [pc EXCEPT ![t] = "refilled"]
    /\ UNCHANGED <<now, result, calls, log, lock, sampler_lock, frame, returned, sampler_vars,
                   rules_vars, lock_vars>>

\* if data.num_tokens >= tokens_requested
Check(t) ==
    /\ pc[t] = "refilled"
    /\ frame' = [frame EXCEPT
                     ![t].allowed = Allowed(data, frame[t].tokens_requested)]
    /\ pc' = [pc EXCEPT ![t] = "checked"]
    /\ UNCHANGED <<now, data, result, calls, log, lock, sampler_lock, returned, bucket,
                   sampler_vars, rules_vars, lock_vars>>

\* The branch taken: the grant, or nothing.
Apply(t) ==
    /\ pc[t] = "checked"
    /\ data' = IF frame[t].allowed
               THEN Grant(data, frame[t].tokens_requested)
               ELSE data
    /\ bucket' = IF frame[t].allowed
                 THEN [bucket EXCEPT !.granted = @ + frame[t].tokens_requested]
                 ELSE bucket
    /\ pc' = [pc EXCEPT ![t] = "decided"]
    /\ UNCHANGED <<now, result, calls, log, lock, sampler_lock, frame, returned, sampler_vars,
                   rules_vars, lock_vars>>

\* The effective rate, Ok(LimitResult { .. }), and the guard dropped.
Return(t) ==
    /\ pc[t] = "decided"
    /\ returned' = [returned EXCEPT
                        ![t] = [ called |-> TRUE,
                                 allowed |-> frame[t].allowed,
                                 effective_rate |-> EffectiveRate(data) ]]
    /\ lock' = 0
    /\ pc' = [pc EXCEPT ![t] = "idle"]
    /\ UNCHANGED <<now, data, result, calls, log, frame, bucket, sampler_lock,
                   sampler_vars, rules_vars, lock_vars>>

\* The clock of the threads' time provider moves on.
Tick ==
    /\ now + SecMs <= MaxThreadSeconds * SecMs
    /\ now' = now + SecMs
    /\ UNCHANGED <<data, result, calls, log, sampler_vars, thread_vars, rules_vars,
                   lock_vars>>

NextThreads ==
    \/ Tick
    \/ \E t \in Threads :
          Lock(t) \/ Roll(t) \/ CountAndRefill(t) \/ Check(t) \/ Apply(t) \/ Return(t)

SpecThreads == Init /\ [][NextThreads]_vars

(***************************************************************************)
(* The priority sampler's callers.                                         *)
(***************************************************************************)
\* The record of a sample() call: its arguments and its outcome.
Sampled(environment, service, trace_id, o) ==
    [ called |-> TRUE, environment |-> environment, service |-> service,
      trace_id |-> trace_id, outcome |-> o.outcome, overflowed |-> o.overflowed,
      value |-> o.value ]

\* sampler.sample(environment, service, trace_id)
Sample(s) ==
    IF poisoned[s]
    THEN LockFailed(s, "sample")
    ELSE /\ served[s] < MaxServed
         /\ \E environment \in Environments, service \in Services,
               trace_id \in TraceIds :
               \E o \in sample(priority_sampler[s], environment, service, trace_id) :
                   sampled' = [sampled EXCEPT
                                  ![s] = Sampled(environment, service, trace_id, o)]
         /\ priority_sampler' = [priority_sampler EXCEPT ![s] = AfterSample(@)]
         /\ served' = [served EXCEPT ![s] = @ + 1]
         /\ UNCHANGED <<limiter_vars, rules_vars, lock_vars>>

\* The same call on the sampler of priority_sampler.rs.
SampleU64(s) ==
    IF poisoned[s]
    THEN LockFailed(s, "sample")
    ELSE /\ served[s] < MaxServed
         /\ \E environment \in Environments, service \in Services,
               trace_id \in TraceIds :
               \E o \in sample_u64(priority_sampler[s], environment, service,
                                   trace_id) :
                   /\ sampled' = [sampled EXCEPT
                                     ![s] = Sampled(environment, service, trace_id, o)]
                   /\ poisoned' = [poisoned EXCEPT ![s] = o.outcome = "panic"]
         /\ priority_sampler' = [priority_sampler EXCEPT ![s] = AfterSample(@)]
         /\ served' = [served EXCEPT ![s] = @ + 1]
         /\ UNCHANGED <<limiter_vars, rules_vars, lock_failed>>

\* The record of a configure() call: its payload, whether it returned Ok,
\* and the data it found.
Configured(p, d, r) ==
    [ called |-> TRUE, payload |-> p, ok |-> r.ok, before |-> d ]

\* sampler.configure(&config)
Configure(s) ==
    IF poisoned[s]
    THEN LockFailed(s, "configure")
    ELSE /\ \E p \in 1..Len(Payloads) :
               LET r == configure(priority_sampler[s], Payloads[p])
               IN  /\ priority_sampler' = [priority_sampler EXCEPT ![s] = r.data]
                   /\ configured' =
                          [configured EXCEPT
                               ![s] = Configured(p, priority_sampler[s], r)]
         /\ sampled' = [sampled EXCEPT ![s] = NoSample]
         /\ UNCHANGED <<served, limiter_vars, sample_rate, sampling_rules,
                        rule_sampled, lock_vars>>

\* The same call on the sampler of priority_sampler.rs.
ConfigureU64(s) ==
    IF poisoned[s]
    THEN LockFailed(s, "configure")
    ELSE /\ \E p \in 1..Len(Payloads) :
               LET r == PrioritySampler_configure(priority_sampler[s], Payloads[p])
               IN  /\ priority_sampler' = [priority_sampler EXCEPT ![s] = r.data]
                   /\ configured' =
                          [configured EXCEPT
                               ![s] = Configured(p, priority_sampler[s], r)]
         /\ sampled' = [sampled EXCEPT ![s] = NoSample]
         /\ UNCHANGED <<served, limiter_vars, sample_rate, sampling_rules,
                        rule_sampled, lock_vars>>

\* The record of a run of the loop of sampled_test: the sampler and the
\* configuration it held, the arguments, and the counts.
SampledTest(s, environment, service, o) ==
    [ called |-> TRUE, sampler |-> s, data |-> priority_sampler[s],
      environment |-> environment, service |-> service, outcome |-> o.outcome,
      count_sampled |-> o.count_sampled, total |-> o.total ]

\* The loop of sampled_test(environment, service) on a configured sampler.
RunSampledTest(s) ==
    /\ ~poisoned[s]
    /\ \E environment \in Environments, service \in Services :
          \E o \in sampled_test(priority_sampler[s], environment, service) :
              sample_rate' = SampledTest(s, environment, service, o)
    /\ priority_sampler' = [priority_sampler EXCEPT ![s] = AfterSample(@)]
    /\ UNCHANGED <<sampled, served, limiter_vars, configured, sampling_rules,
                   rule_sampled, lock_vars>>

\* The same on the sampler of priority_sampler.rs.
RunSampledTestU64(s) ==
    /\ ~poisoned[s]
    /\ \E environment \in Environments, service \in Services :
          \E o \in sampled_test_u64(priority_sampler[s], environment, service) :
              /\ sample_rate' = SampledTest(s, environment, service, o)
              /\ poisoned' = [poisoned EXCEPT ![s] = o.outcome = "panic"]
    /\ priority_sampler' = [priority_sampler EXCEPT ![s] = AfterSample(@)]
    /\ UNCHANGED <<sampled, served, limiter_vars, configured, sampling_rules,
                   rule_sampled, lock_failed>>

\* The same payload given to every sampler, as one agent configures the
\* processes that share its rate table.
ConfigureAll ==
    /\ \A s \in SamplerIds : ~poisoned[s]
    /\ \E p \in 1..Len(Payloads) :
          priority_sampler' =
              [s \in SamplerIds |-> configure(priority_sampler[s], Payloads[p]).data]
    /\ sampled' = [s \in SamplerIds |-> NoSample]
    /\ UNCHANGED <<served, limiter_vars, rules_vars, lock_vars>>

\* The sampler specifications leave the limiter as the tests construct it.
InitSamplers == Init /\ data = LimitData_new(0, 1, 1, 1)

\* One sampler, of either copy of the code.
NextSampler == Configure(1) \/ Sample(1) \/ SampleU64(1)

SpecSampler == InitSamplers /\ [][NextSampler]_vars

\* Samplers that are never configured.
NextUnconfigured == \E s \in SamplerIds : Sample(s)

SpecUnconfigured == InitSamplers /\ [][NextUnconfigured]_vars

\* Two samplers of dd/sample/priority_sampler.rs that hold the same
\* configuration.
NextSamplers == ConfigureAll \/ \E s \in SamplerIds : Sample(s)

SpecSamplers == InitSamplers /\ [][NextSamplers]_vars

\* Sampler 1 of dd/sample/priority_sampler.rs and sampler 2 of
\* priority_sampler.rs, each configured and then measured by sampled_test.
NextSampledTest ==
    \/ Configure(1)
    \/ RunSampledTest(1)
    \/ ConfigureU64(2)
    \/ RunSampledTestU64(2)

SpecSampledTest == InitSamplers /\ [][NextSampledTest]_vars

(***************************************************************************)
(* Callers that go on after a panic.  The limiter is given                 *)
(* tokens_per_refresh 0, which LimitData::new turns into a refresh         *)
(* interval of zero; sampler 1 is of priority_sampler.rs, whose            *)
(* multiplication panics in a build with overflow checks.                  *)
(***************************************************************************)
\* Limiter::new(time_provider, 1, 1.0, 0)
InitPoison ==
    /\ now = 0
    /\ data = LimitData_new(0, 1, 1, 0)
    /\ result = NoResult
    /\ calls = 0
    /\ log = <<>>
    /\ InitSampler /\ InitThreads /\ InitRules /\ InitLocks

NextPoison ==
    \/ Allow
    \/ SampleU64(1)
    \/ ConfigureU64(1)

SpecPoison == InitPoison /\ [][NextPoison]_vars

(***************************************************************************)
(* The callers of one RulesSampler, which owns the limiter and sampler 1.  *)
(***************************************************************************)
\* sampler.add_rule(rule)
AddRule ==
    /\ Len(sampling_rules) < MaxRules
    /\ \E rule \in Rules : sampling_rules' = Append(sampling_rules, rule)
    /\ rule_sampled' = NoSample
    /\ UNCHANGED <<limiter_vars, sampler_vars, configured, sample_rate, lock_vars>>

\* The record of a RulesSampler::sample call: its arguments, what match_rule
\* returned and invoked, the limiter data the call found, and its outcome.
RuleSampled(environment, service, name, trace_id, o) ==
    [ called |-> TRUE, environment |-> environment, service |-> service,
      name |-> name, trace_id |-> trace_id, at |-> now,
      rule_result |-> match_rule(sampling_rules, service, name).result,
      invoked |-> match_rule(sampling_rules, service, name).invoked,
      limiter_before |-> data,
      limiter_calls |-> o.limiter_calls,
      outcome |-> o.outcome, value |-> o.value ]

\* sampler.sample(environment, service, name, trace_id)
RulesSample ==
    /\ ~poisoned[LimiterMutex] /\ ~poisoned[1]
    /\ served[1] < MaxServed
    /\ \E environment \in Environments, service \in Services, name \in Names,
          trace_id \in RuleTraceIds :
          \E o \in RulesSampler_sample(sampling_rules, data, priority_sampler[1], now,
                                       environment, service, name, trace_id) :
              /\ rule_sampled' = RuleSampled(environment, service, name, trace_id, o)
              /\ data' = o.data
    /\ served' = [served EXCEPT ![1] = @ + 1]
    /\ priority_sampler' = [priority_sampler EXCEPT ![1] = AfterSample(@)]
    /\ UNCHANGED <<now, result, calls, log, thread_vars, sampled, configured,
                   sample_rate, sampling_rules, lock_vars>>

\* sampler.update_priority_sampler(&config)
UpdatePrioritySampler ==
    /\ ~poisoned[1]
    /\ \E p \in 1..Len(Payloads) :
          priority_sampler' =
              [priority_sampler EXCEPT ![1] = configure(@, Payloads[p]).data]
    /\ rule_sampled' = NoSample
    /\ UNCHANGED <<limiter_vars, sampled, served, configured, sample_rate,
                   sampling_rules, lock_vars>>

\* The calls made on a rules sampler within one reading of its clock: the
\* limiter it owns grants its tokens and then denies.
NextRules == AddRule \/ RulesSample \/ UpdatePrioritySampler

SpecRules == InitSamplers /\ [][NextRules]_vars

(***************************************************************************)
(* Threads that call one RulesSampler.  sample() and                       *)
(* update_priority_sampler() take `&mut self`; the threads here interleave *)
(* at every lock() and every return, which is every interleaving a caller  *)
(* could bring about and more than a caller that serialises the calls      *)
(* brings about.  A critical section is one step: its guard is a local of  *)
(* Limiter::allow, PrioritySampler::sample or PrioritySampler::configure.  *)
(***************************************************************************)
\* The trace ids the threads pass: 1, which the test of a rule of rate 3/4
\* lets through, and 2^63, which it rejects.
ThreadTraceIds == { U64(1), <<0, 0, 0, 0, 0, 0, 0, 128>> }

\* The payloads the threads pass to update_priority_sampler.
ThreadPayloads == {1, 2}

\* RulesSampler::new(time_provider, 1, 1.0, 1) and one add_rule: the rule
\* for the operation GET, rate 3/4.
InitRulesThreads ==
    /\ now = 0
    /\ data = LimitData_new(0, 1, 1, 1)
    /\ result = NoResult
    /\ calls = 0
    /\ log = <<>>
    /\ InitSampler /\ InitThreads /\ InitLocks
    /\ sampling_rules = << [ service |-> "*", name |-> "GET", rate |-> F64(3, 2) ] >>
    /\ rule_sampled = NoSample

\* Where sample() goes after match_rule and the hash test, which take no
\* lock.
AfterMatch(service, name, trace_id) ==
    LET rule_result == match_rule(sampling_rules, service, name).result
    IN  IF ~rule_result.matched THEN "delegating"
        ELSE IF HashRejects(HashedId(trace_id),
                            max_id_from_sample_rate(rule_result.rate))
             THEN "rejected"
             ELSE "limiting"

\* A thread calls sample(): match_rule and, on a match, the hash test.
EnterSample(t) ==
    /\ pc[t] = "idle"
    /\ calls < MaxThreadCalls
    /\ \E service \in Services, name \in Names, trace_id \in ThreadTraceIds :
          /\ frame' = [frame EXCEPT
                           ![t] = [ op |-> "sample", service |-> service,
                                    name |-> name, trace_id |-> trace_id,
                                    payload |-> 0 ]]
          /\ pc' = [pc EXCEPT ![t] = AfterMatch(service, name, trace_id)]
    /\ calls' = calls + 1
    /\ UNCHANGED <<now, data, result, log, lock, sampler_lock, returned, bucket,
                   sampler_vars, rules_vars, lock_vars>>

\* A thread calls update_priority_sampler().
EnterUpdate(t) ==
    /\ pc[t] = "idle"
    /\ calls < MaxThreadCalls
    /\ \E p \in ThreadPayloads :
          frame' = [frame EXCEPT
                        ![t] = [ op |-> "update", service |-> "", name |-> "",
                                 trace_id |-> U64(0), payload |-> p ]]
    /\ pc' = [pc EXCEPT ![t] = "configuring"]
    /\ calls' = calls + 1
    /\ UNCHANGED <<now, data, result, log, lock, sampler_lock, returned, bucket,
                   sampler_vars, rules_vars, lock_vars>>

\* return Ok(result) of a trace the hash test rejects.
ReturnRejected(t) ==
    /\ pc[t] = "rejected"
    /\ returned' = [returned EXCEPT
                        ![t] = [ called |-> TRUE, op |-> "sample",
                                 sampling_priority |-> SamplerDrop ]]
    /\ pc' = [pc EXCEPT ![t] = "idle"]
    /\ UNCHANGED <<now, data, result, calls, log, lock, sampler_lock, frame, bucket,
                   sampler_vars, rules_vars, lock_vars>>

\* self.data.lock() of PrioritySampler::sample or ::configure.
SamplerLock(t) ==
    /\ pc[t] \in {"delegating", "configuring"}
    /\ sampler_lock = 0
    /\ ~poisoned[1]
    /\ sampler_lock' = t
    /\ pc' = [pc EXCEPT ![t] = IF pc[t] = "delegating" THEN "sampling" ELSE "storing"]
    /\ UNCHANGED <<now, data, result, calls, log, lock, frame, returned, bucket,
                   sampler_vars, rules_vars, lock_vars>>

\* A return of PrioritySampler::sample that keeps its guard alive.
SamplerSampleReturn_keeps(t) ==
    /\ pc[t] = "sampling"
    /\ \E o \in sample(priority_sampler[1], "", frame[t].service, frame[t].trace_id) :
          returned' = [returned EXCEPT
                           ![t] = [ called |-> TRUE, op |-> "sample",
                                    sampling_priority |-> o.value.sampling_priority ]]
    /\ pc' = [pc EXCEPT ![t] = "idle"]
    /\ UNCHANGED <<now, data, result, calls, log, lock, sampler_lock, frame, bucket,
                   sampler_vars, rules_vars, lock_vars>>

\* The body of PrioritySampler::sample and its return, which drops the
\* guard.
SamplerSampleReturn(t) ==
    /\ pc[t] = "sampling"
    /\ \E o \in sample(priority_sampler[1], "", frame[t].service, frame[t].trace_id) :
          returned' = [returned EXCEPT
                           ![t] = [ called |-> TRUE, op |-> "sample",
                                    sampling_priority |-> o.value.sampling_priority ]]
    /\ sampler_lock' = 0
    /\ pc' = [pc EXCEPT ![t] = "idle"]
    /\ UNCHANGED <<now, data, result, calls, log, lock, frame, bucket,
                   sampler_vars, rules_vars, lock_vars>>

\* The body of PrioritySampler::configure and its return, which drops the
\* guard.
SamplerConfigureReturn(t) ==
    /\ pc[t] = "storing"
    /\ LET r == configure(priority_sampler[1], Payloads[frame[t].payload])
       IN  /\ priority_sampler' = [priority_sampler EXCEPT ![1] = r.data]
           /\ returned' = [returned EXCEPT
                               ![t] = [ called |-> TRUE, op |-> "update",
                                        ok |-> r.ok ]]
    /\ sampler_lock' = 0
    /\ pc' = [pc EXCEPT ![t] = "idle"]
    /\ UNCHANGED <<now, data, result, calls, log, lock, frame, bucket, sampled, served,
                   rules_vars, lock_vars>>

\* self.data.lock() of Limiter::allow, called as self.limiter.allow(1).
LimiterLock(t) ==
    /\ pc[t] = "limiting"
    /\ LockFree
    /\ ~poisoned[LimiterMutex]
    /\ lock' = t
    /\ pc' = [pc EXCEPT ![t] = "allowing"]
    /\ UNCHANGED <<now, data, result, calls, log, sampler_lock, frame, returned,
                   bucket, sampler_vars, rules_vars, lock_vars>>

\* The body of Limiter::allow and its return, which drops the guard, and
\* the result sample() makes of it.
LimiterReturn(t) ==
    /\ pc[t] = "allowing"
    /\ data' = allow(data, now, 1).data
    /\ returned' = [returned EXCEPT
                        ![t] = [ called |-> TRUE, op |-> "sample",
                                 sampling_priority |->
                                     IF allow(data, now, 1).allowed
                                     THEN SamplerKeep ELSE SamplerDrop ]]
    /\ lock' = 0
    /\ pc' = [pc EXCEPT ![t] = "idle"]
    /\ UNCHANGED <<now, result, calls, log, sampler_lock, frame, bucket,
                   sampler_vars, rules_vars, lock_vars>>

RulesThread(t) ==
    \/ EnterSample(t)
    \/ EnterUpdate(t)
    \/ ReturnRejected(t)
    \/ SamplerLock(t)
    \/ SamplerSampleReturn(t)
    \/ SamplerConfigureReturn(t)
    \/ LimiterLock(t)
    \/ LimiterReturn(t)

NextRulesThreads == \E t \in Threads : RulesThread(t)

SpecRulesThreads == InitRulesThreads /\ [][NextRulesThreads]_vars

(***************************************************************************)
(* Claims about the sequential limiter.                                    *)
(***************************************************************************)
\* The tokens the decision of the last call found: what is left, plus what
\* the call took.
TokensUsed ==
    data.num_tokens + (IF result.allowed THEN result.tokens_requested ELSE 0)

\* C1: after any sequence of allow() calls, whatever the tokens requested and
\* however long the gaps between calls, 0 <= num_tokens <= max_tokens.
C1_TokensWithinCapacity ==
    /\ data.num_tokens >= 0
    /\ data.num_tokens <= data.max_tokens

\* A call after a gap of several refresh intervals, whose refill
\* intervals * tokens_per_refresh is more than the capacity.
C1_Witness ==
    /\ result.called
    /\ result.refill_intervals >= 2
    /\ result.refill_intervals * data.tokens_per_refresh > data.max_tokens
    /\ TokensUsed = data.max_tokens

\* C2: on a fresh limiter of capacity C, of the allow(1) calls made before
\* next_refresh the first C are allowed and all further ones denied, and the
\* first allow(1) made at or after next_refresh is allowed.
C2_FreshLimiter ==
    \A i \in 1..Len(log) :
        /\ log[i].at < data.refresh_interval =>
               (log[i].allowed <=> i <= data.max_tokens)
        /\ ( /\ log[i].at >= data.refresh_interval
             /\ (i = 1 \/ log[i - 1].at < data.refresh_interval) ) =>
               log[i].allowed

\* Capacity 1: allowed, denied at the same instant, allowed again 1 s later.
C2_Witness ==
    /\ data.max_tokens = 1
    /\ Len(log) = 3
    /\ log[1].allowed /\ ~log[2].allowed /\ log[3].allowed
    /\ log[2].at < data.refresh_interval
    /\ log[3].at >= data.refresh_interval

\* C3: a call at now >= next_refresh decides on exactly
\* min(max_tokens, k * tokens_per_refresh) tokens, with
\* k = floor((now - next_refresh) / refresh_interval) + 1, whatever was left
\* before, and moves next_refresh by k * refresh_interval; a call at
\* now < next_refresh decides on the tokens that were left and leaves
\* next_refresh alone.
C3_RefillSets ==
    result.called =>
        /\ result.allowed <=> TokensUsed >= result.tokens_requested
        /\ IF result.at >= result.next_refresh_before
           THEN LET k == (result.at - result.next_refresh_before)
                             \div data.refresh_interval + 1
                IN  /\ TokensUsed = Min(data.max_tokens, k * data.tokens_per_refresh)
                    /\ data.next_refresh =
                           result.next_refresh_before + k * data.refresh_interval
           ELSE /\ TokensUsed = result.tokens_before
                /\ data.next_refresh = result.next_refresh_before

\* A refill that finds more tokens left than it sets.
C3_Witness ==
    /\ result.called
    /\ result.at >= result.next_refresh_before
    /\ result.tokens_before > TokensUsed
    /\ TokensUsed < data.max_tokens

\* C4: every call returns (sum of the 9 slots + num_allowed / num_requested)
\* / 10, the counters including the call itself; on a fresh history one
\* allowed call gives 1.0, and one allowed plus one denied call in the same
\* window gives 0.95.
C4_EffectiveRate ==
    result.called =>
        /\ data.num_requested >= 1
        /\ result.effective_rate * (HistoryLen + 1) =
               SumSeq(data.previous_rates)
                   + Ratio(data.num_allowed, data.num_requested)
        /\ (\A i \in 1..HistoryLen : data.previous_rates[i] = RateScale) =>
               /\ (data.num_allowed = 1 /\ data.num_requested = 1) =>
                      result.effective_rate = RateScale
               /\ (data.num_allowed = 1 /\ data.num_requested = 2) =>
                      result.effective_rate * 100 = 95 * RateScale

\* A denied call that follows an allowed one in the window, after a roll has
\* written a ratio below 1.0 into the history.
C4_Witness ==
    /\ result.called
    /\ ~result.allowed
    /\ data.num_allowed = 1 /\ data.num_requested = 2
    /\ \E i \in 1..HistoryLen : data.previous_rates[i] < RateScale

\* C5: after an idle gap of at least 9 whole seconds since current_period,
\* one allowed call returns the effective rate 1.0, whatever the history and
\* the window held before the gap.
C5_IdleGapRestoresRate ==
    (result.called /\ result.window_intervals >= HistoryLen /\ result.allowed) =>
        result.effective_rate = RateScale

\* C31: after every allow() call that returns, next_refresh is later than
\* the now of the call, and it is its initial value, refresh_interval after
\* the construction at 0, plus a whole number of refresh intervals: the
\* refill catches up in one step however long the gap.
C31_NextRefreshAhead ==
    result.called =>
        /\ data.next_refresh > result.at
        /\ data.next_refresh >= data.refresh_interval
        /\ (data.next_refresh - data.refresh_interval) % data.refresh_interval = 0

\* A call made after a gap of three or more refresh intervals, which moved
\* next_refresh past its own now in the one refill.
C31_Witness ==
    /\ result.called
    /\ result.refill_intervals >= 3
    /\ result.next_refresh_before + 2 * data.refresh_interval <= result.at
    /\ data.next_refresh > result.at

\* The allow(1) calls i..j of the log that were allowed: each was granted
\* one token.
GrantedIn(i, j) == Cardinality({ k \in i..j : log[k].allowed })

\* The cap on the tokens granted over a span of length T.
ThroughputCap(T) ==
    data.max_tokens + (T \div data.refresh_interval + 1) * data.tokens_per_refresh

\* C32: over any run of consecutive allow() calls, T being the time from
\* the first to the last of them, the tokens granted are at most
\* max_tokens + (floor(T / refresh_interval) + 1) * tokens_per_refresh.
C32_ThroughputCap ==
    \A i \in 1..Len(log) : \A j \in i..Len(log) :
        GrantedIn(i, j) <= ThroughputCap(log[j].at - log[i].at)

\* Three calls within less than one refresh interval, one of them denied,
\* that were granted the whole cap of that span.
C32_Witness ==
    /\ Len(log) = 3
    /\ log[3].at - log[1].at < data.refresh_interval
    /\ \E k \in 1..3 : ~log[k].allowed
    /\ GrantedIn(1, 3) = ThroughputCap(log[3].at - log[1].at)

\* C33: a refill never takes tokens away: a call that refills decides on at
\* least the tokens that were left before it.
C33_RefillNeverLowers ==
    (result.called /\ result.at >= result.next_refresh_before) =>
        TokensUsed >= result.tokens_before

\* C25: after every allow() call, whatever roll it performed (none, a
\* rotation by 1..8 seconds, the reset after 9 or more), the history holds
\* exactly 9 slots and previous_rates_sum is the sum of those 9 slots.
C25_HistoryLengthAndSum ==
    /\ Len(data.previous_rates) = 9
    /\ data.previous_rates_sum = SumSeq(data.previous_rates)

\* A call that rotated the history by 2..8 seconds and left a ratio below
\* 1.0 in it.
C25_Witness ==
    /\ result.called
    /\ result.window_intervals \in 2..8
    /\ data.previous_rates_sum < 9 * RateScale

\* A step of the specification that is a call of allow().
AllowStep == calls' = calls + 1

\* The whole seconds between current_period and the call that AllowStep
\* makes.
RolledBy == (now - data.current_period) \div 1000

\* C26: a call that rolls the window by k whole seconds, 0 < k < 9, rotates
\* the history right by k: new slots k..8 are the old slots 0..8-k, and new
\* slot k-1 holds num_allowed / num_requested of the period just closed, or
\* 1.0 when that period had no request.
C26_RotatesRight ==
    [][ (AllowStep /\ RolledBy \in 1..8) =>
            /\ \A i \in (RolledBy + 1)..9 :
                   data'.previous_rates[i] = data.previous_rates[i - RolledBy]
            /\ IF data.num_requested > 0
               THEN data'.previous_rates[RolledBy] * data.num_requested
                        = data.num_allowed * RateScale
               ELSE data'.previous_rates[RolledBy] = RateScale ]_vars

\* A roll by 2..8 seconds that closed a period with a denied call and
\* moved an older ratio below 1.0 up the history.
C26_Witness ==
    /\ result.called
    /\ result.window_intervals \in 2..8
    /\ data.previous_rates[result.window_intervals] < RateScale
    /\ data.previous_rates[result.window_intervals + 1] < RateScale

\* C27: after a roll by k whole seconds, 2 <= k < 9, every slot that stands
\* for a second without a call (slots 0..k-2) equals 1.0: no ratio from
\* before the roll stays in those slots.
C27_SkippedWindowsAllowed ==
    (result.called /\ result.window_intervals \in 2..8) =>
        \A i \in 1..(result.window_intervals - 1) :
            data.previous_rates[i] = RateScale

\* C28: the decision of allow(n) is taken on the data as rolled and
\* refilled: the call is allowed exactly when num_tokens >= n there; an
\* allowed call takes n tokens and adds 1 to num_allowed, a denied call
\* leaves both; num_requested is one more than after the roll either way.
C28_DecisionAfterRefill ==
    [][ AllowStep =>
            LET n == result'.tokens_requested
                found == BeforeDecision(data, now)
            IN  /\ result'.allowed <=> found.num_tokens >= n
                /\ data'.num_tokens =
                       found.num_tokens - (IF result'.allowed THEN n ELSE 0)
                /\ data'.num_allowed =
                       RollWindow(data, now).num_allowed
                           + (IF result'.allowed THEN 1 ELSE 0)
                /\ data'.num_requested = RollWindow(data, now).num_requested + 1
      ]_vars

\* A call for 2 tokens denied while a token was left, after an allowed call
\* in the same window.
C28_Witness ==
    /\ result.called
    /\ ~result.allowed
    /\ result.tokens_requested = 2
    /\ data.num_tokens = 1
    /\ data.num_allowed = 1 /\ data.num_requested = 2

\* C29: a call made less than one whole second after current_period rolls
\* nothing: the 9 slots, previous_rates_sum and current_period stay and the
\* counters go on accumulating; a call made one or more whole seconds after
\* it resets the counters to 0 before it counts itself and sets
\* current_period to now.
C29_RollOnlyOnWholeSeconds ==
    [][ AllowStep =>
            LET counted == IF result'.allowed THEN 1 ELSE 0
            IN  IF now - data.current_period < 1000
                THEN /\ data'.previous_rates = data.previous_rates
                     /\ data'.previous_rates_sum = data.previous_rates_sum
                     /\ data'.current_period = data.current_period
                     /\ data'.num_requested = data.num_requested + 1
                     /\ data'.num_allowed = data.num_allowed + counted
                ELSE /\ data'.num_requested = 1
                     /\ data'.num_allowed = counted
                     /\ data'.current_period = now
      ]_vars

\* A call made half a second into a window that a roll opened, after the
\* call that rolled.
C29_Witness ==
    /\ result.called
    /\ result.window_intervals = 0
    /\ result.at = data.current_period + 500
    /\ data.num_requested = 2
    /\ data.current_period > 0

\* C30: num_allowed <= num_requested always, num_requested >= 1 whenever an
\* effective rate is computed, every slot of the history lies in [0, 1],
\* and so does every effective rate allow() returns.
C30_RatesWithinUnit ==
    /\ data.num_allowed <= data.num_requested
    /\ \A i \in 1..Len(data.previous_rates) :
           data.previous_rates[i] \in 0..RateScale
    /\ result.called =>
           /\ data.num_requested >= 1
           /\ result.effective_rate \in 0..RateScale

\* A denied call in a window whose history holds a slot of 0.0: the rate
\* returned is strictly between 0 and 1.
C30_Witness ==
    /\ result.called
    /\ ~result.allowed
    /\ \E i \in 1..9 : data.previous_rates[i] = 0
    /\ data.num_allowed = 0
    /\ result.effective_rate > 0 /\ result.effective_rate < RateScale

(***************************************************************************)
(* Claims about the priority sampler.                                      *)
(***************************************************************************)
\* The rate the claims expect the last sample() call of sampler s to have
\* applied: the one stored under "service:<service>,env:<environment>", or
\* the default rate.
ExpectedRate(s) ==
    LET key == "service:" \o sampled[s].service \o ",env:" \o sampled[s].environment
        table == priority_sampler[s].agent_sampling_rates
    IN  IF key \in DOMAIN table
        THEN table[key]
        ELSE priority_sampler[s].default_sampling_rate

\* Whether the 128-bit product of the last trace id of sampler s and the
\* hash factor, cut to its low 64 bits, is below max_hash.
HashBelow(s, max_hash) ==
    Less(SubSeq(WideMul(sampled[s].trace_id, CONSTANT_RATE_HASH_FACTOR), 1, 8),
         max_hash)

\* C7: sample() returns Keep exactly when the product trace_id * hash factor,
\* computed without wraparound and cut to 64 bits, is strictly below the
\* applied max_hash, and Drop otherwise; the multiplication never overflows,
\* panics or wraps.
C7_KeepIffHashBelowMax ==
    \A s \in SamplerIds :
        sampled[s].called =>
            /\ sampled[s].outcome = "ok"
            /\ ~sampled[s].overflowed
            /\ sampled[s].value.sampling_priority =
                   IF HashBelow(s, ExpectedRate(s).max_hash)
                   THEN SamplerKeep ELSE SamplerDrop

\* C8: a sampler that was never configured returns priority_rate 1.0 and
\* Keep for every environment, service and trace id.
C8_UnconfiguredKeepsAll ==
    \A s \in SamplerIds :
        sampled[s].called =>
            /\ sampled[s].outcome = "ok"
            /\ sampled[s].value.priority_rate = F64(1, 0)
            /\ sampled[s].value.sampling_priority = SamplerKeep

\* C9: a sample() call that returns has applied the rate stored under the
\* key "service:<service>,env:<environment>" when the table holds that key
\* and the default rate otherwise, and returns that rate as priority_rate.
C9_ExactKeyOrDefault ==
    \A s \in SamplerIds :
        (sampled[s].called /\ sampled[s].outcome = "ok") =>
            /\ sampled[s].value.priority_rate = ExpectedRate(s).rate
            /\ sampled[s].value.sampling_priority = SamplerKeep
                   <=> HashBelow(s, ExpectedRate(s).max_hash)

\* A call whose key is in the table, with a rate that is not the default
\* one, and under which the trace is dropped though the default keeps it.
C9_Witness ==
    /\ sampled[1].called /\ sampled[1].outcome = "ok"
    /\ Key(sampled[1].service, sampled[1].environment)
           \in DOMAIN priority_sampler[1].agent_sampling_rates
    /\ sampled[1].value.priority_rate
           # priority_sampler[1].default_sampling_rate.rate
    /\ sampled[1].value.sampling_priority = SamplerDrop
    /\ HashBelow(1, priority_sampler[1].default_sampling_rate.max_hash)

C11_KeepFractionIsRate ==
    ( /\ sample_rate.called
      /\ Key(sample_rate.service, sample_rate.environment)
             \in DOMAIN sample_rate.data.agent_sampling_rates ) =>
        LET R == sample_rate.data.agent_sampling_rates[
                     Key(sample_rate.service, sample_rate.environment)].rate
        IN  /\ sample_rate.outcome = "ok"
            /\ sample_rate.count_sampled * 2^R.exp = R.num * sample_rate.total

\* The same of the sampler of dd/sample/priority_sampler.rs alone.
C11_KeepFractionIsRate_dd ==
    sample_rate.called /\ sample_rate.sampler = 1 => C11_KeepFractionIsRate

\* The payload of the last configure() call of sampler s, and its entries.
PayloadOf(s) == Payloads[configured[s].payload]

EntriesOf(s) ==
    IF PayloadOf(s).kind = "object"
    THEN { PayloadOf(s).entries[i] : i \in 1..Len(PayloadOf(s).entries) }
    ELSE {}

\* Whether that payload is one configure() must refuse.
Malformed(s) ==
    \/ PayloadOf(s).kind # "object"
    \/ \E e \in EntriesOf(s) : e[2].kind # "number"

\* C12: a successful configure(payload) leaves a table that holds exactly
\* the payload's keys other than the sentinel "service:,env:", each with
\* the payload's rate; no other key of the previous table survives; the
\* sentinel is never a key of the table, and its rate becomes the default
\* rate.
C12_ReplacesWholesale ==
    \A s \in SamplerIds :
        (configured[s].called /\ configured[s].ok) =>
            LET table == priority_sampler[s].agent_sampling_rates
                default == priority_sampler[s].default_sampling_rate
            IN  /\ DOMAIN table =
                       { e[1] : e \in EntriesOf(s) } \ {"service:,env:"}
                /\ \A e \in EntriesOf(s) :
                       IF e[1] = "service:,env:"
                       THEN default.rate = e[2].rate
                       ELSE table[e[1]].rate = e[2].rate
                /\ "service:,env:" \notin DOMAIN table
                /\ (\A e \in EntriesOf(s) : e[1] # "service:,env:") =>
                       default = configured[s].before.default_sampling_rate

\* A successful configure() with the sentinel key, on a table that held a
\* key the payload does not repeat.
C12_Witness ==
    \E s \in SamplerIds :
        /\ configured[s].called /\ configured[s].ok
        /\ \E k \in DOMAIN configured[s].before.agent_sampling_rates :
               k \notin DOMAIN priority_sampler[s].agent_sampling_rates
        /\ \E e \in EntriesOf(s) : e[1] = "service:,env:"
        /\ priority_sampler[s].default_sampling_rate
               # configured[s].before.default_sampling_rate

\* C13: configure() with a payload that is not an object, or with an object
\* that holds a value that is not a number, returns an error and leaves the
\* rate table as it was before the call.
C13_ErrorKeepsTable ==
    \A s \in SamplerIds :
        (configured[s].called /\ Malformed(s)) =>
            /\ ~configured[s].ok
            /\ priority_sampler[s].agent_sampling_rates
                   = configured[s].before.agent_sampling_rates

\* A refused object, whose numeric entries come before the value that is
\* not a number, on a table that holds other rates for its keys.
C13_Witness ==
    \E s \in SamplerIds :
        /\ configured[s].called /\ ~configured[s].ok
        /\ PayloadOf(s).kind = "object"
        /\ \E e \in EntriesOf(s) :
               /\ e[2].kind = "number"
               /\ e[1] \in DOMAIN priority_sampler[s].agent_sampling_rates
               /\ priority_sampler[s].agent_sampling_rates[e[1]].rate # e[2].rate

\* C14: a configure() call that returns an error leaves the whole sampler
\* state as it was, the default rate included, also when the payload holds
\* the sentinel key together with a value that is not a number.
C14_AllOrNothing ==
    \A s \in SamplerIds :
        (configured[s].called /\ ~configured[s].ok) =>
            priority_sampler[s] = configured[s].before

(***************************************************************************)
(* Claims about the rules sampler.                                         *)
(***************************************************************************)
\* The rules, by their place in the registration order, that match the
\* service and the name of the last sample() call.
Matching ==
    { j \in 1..Len(sampling_rules) :
        /\ sampling_rules[j].service \in {"*", rule_sampled.service}
        /\ sampling_rules[j].name \in {"*", rule_sampled.name} }

\* The earliest-registered of them.
FirstMatching == CHOOSE j \in Matching : \A k \in Matching : j <= k

\* C15: match_rule invokes the callbacks in registration order and returns
\* the result of the earliest-registered rule that matches, also when later
\* rules match; when none matches it invokes them all and returns an
\* unmatched RuleResult.
C15_FirstMatchWins ==
    rule_sampled.called =>
        IF Matching = {}
        THEN /\ ~rule_sampled.rule_result.matched
             /\ rule_sampled.invoked = [i \in 1..Len(sampling_rules) |-> i]
        ELSE /\ rule_sampled.rule_result.matched
             /\ rule_sampled.rule_result.rate = sampling_rules[FirstMatching].rate
             /\ rule_sampled.invoked = [i \in 1..FirstMatching |-> i]

\* Two rules of different rates both match, and the call returned the rate
\* of the one registered first.
C15_Witness ==
    /\ rule_sampled.called
    /\ Matching = {1, 2}
    /\ sampling_rules[1].rate # sampling_rules[2].rate
    /\ rule_sampled.rule_result.rate = sampling_rules[1].rate

\* C16: when no rule matches, sample() returns what PrioritySampler::sample
\* returns for the same environment, service and trace id under the same
\* configuration, and leaves the limiter (tokens, counters, history,
\* next_refresh) as it was.
C16_DelegatesToPrioritySampler ==
    (rule_sampled.called /\ Matching = {}) =>
        /\ \E o \in sample(priority_sampler[1], rule_sampled.environment,
                             rule_sampled.service, rule_sampled.trace_id) :
               /\ rule_sampled.outcome = o.outcome
               /\ rule_sampled.value = o.value
        /\ rule_sampled.limiter_calls = <<>>
        /\ data = rule_sampled.limiter_before

\* A trace that no rule of a sampler with rules matches, dropped by the
\* rate the priority sampler holds for its service in the environment
\* "prod", which it does not hold for the service "prod".
C16_Witness ==
    /\ rule_sampled.called
    /\ Matching = {}
    /\ sampling_rules # <<>>
    /\ rule_sampled.environment = "prod"
    /\ Key(rule_sampled.service, rule_sampled.environment)
           \in DOMAIN priority_sampler[1].agent_sampling_rates
    /\ rule_sampled.value.sampling_priority = SamplerDrop
    /\ data.num_tokens > 0

\* C17: in the result of a sample() in which no rule matched, rule_rate and
\* limiter_rate are NaN.
C17_UnmatchedRatesAreNaN ==
    (rule_sampled.called /\ Matching = {}) =>
        /\ rule_sampled.value.rule_rate = NaN
        /\ rule_sampled.value.limiter_rate = NaN

\* C18: with a matched rule of rate 0.0, sample() returns Drop for every
\* trace id, 0 included, does not call the limiter, leaves limiter_rate
\* unset and the limiter's counters and tokens unchanged.
C18_ZeroRateDropsAll ==
    ( /\ rule_sampled.called
      /\ Matching # {}
      /\ sampling_rules[FirstMatching].rate = F64(0, 0) ) =>
        /\ rule_sampled.value.sampling_priority = SamplerDrop
        /\ rule_sampled.limiter_calls = <<>>
        /\ rule_sampled.value.limiter_rate = NaN
        /\ data = rule_sampled.limiter_before

\* The max_hash of the rate of the rule the last call matched: u64::MAX for
\* 1.0, 0 for 0.0, the rate's share of 2^64 otherwise.
RuleMaxHash ==
    LET rate == sampling_rules[FirstMatching].rate
    IN  IF rate = F64(1, 0) THEN U64_MAX
        ELSE [i \in 1..8 |-> IF i = 8 THEN rate.num * 2^(8 - rate.exp) ELSE 0]

\* The product of the last call's trace id and the hash factor, in 128 bits.
RuleHash == WideMul(rule_sampled.trace_id, CONSTANT_RATE_HASH_FACTOR)

\* The hash test of a matched rule rejects the trace: hashed_id > max_hash,
\* of the 128-bit product as the code compares it, or of the product cut to
\* 64 bits (above max_hash only when the whole product is).
FailsHashTest ==
    \/ Less(RuleMaxHash \o <<0, 0, 0, 0, 0, 0, 0, 0>>, RuleHash)
    \/ Less(RuleMaxHash, SubSeq(RuleHash, 1, 8))

\* The trace passes the test on the product cut to 64 bits.
PassesHashTest == ~Less(RuleMaxHash, SubSeq(RuleHash, 1, 8))

\* C19: when a rule matches and the trace fails the rule's hash test,
\* sample() returns Drop with rule_rate the rule's rate and limiter_rate
\* unset, and the limiter is not called: tokens, num_requested,
\* num_allowed, history and next_refresh are as before the call.
C19_RejectedSparesLimiter ==
    (rule_sampled.called /\ Matching # {} /\ FailsHashTest) =>
        /\ rule_sampled.value.sampling_priority = SamplerDrop
        /\ rule_sampled.value.rule_rate = sampling_rules[FirstMatching].rate
        /\ rule_sampled.value.limiter_rate = NaN
        /\ rule_sampled.limiter_calls = <<>>
        /\ data = rule_sampled.limiter_before

\* A rule of rate 3/4 rejects trace id 16, whose product does not exceed
\* 64 bits, while the limiter holds a token.
C19_Witness ==
    /\ rule_sampled.called
    /\ Matching # {}
    /\ sampling_rules[FirstMatching].rate = F64(3, 2)
    /\ Less(RuleMaxHash, SubSeq(RuleHash, 1, 8))
    /\ \A i \in 9..16 : RuleHash[i] = 0
    /\ rule_sampled.limiter_before.num_tokens > 0
    /\ rule_sampled.value.sampling_priority = SamplerDrop

\* C20: when a rule matches and the trace passes the rule's hash test,
\* sample() calls the limiter once, with allow(1), sets limiter_rate to the
\* effective rate it returns and rule_rate to the rule's rate, and returns
\* Keep exactly when the limiter allowed the call; priority_rate stays
\* unset.
C20_PassedAsksLimiter ==
    (rule_sampled.called /\ Matching # {} /\ PassesHashTest) =>
        LET limit_result ==
                allow(rule_sampled.limiter_before, rule_sampled.at, 1)
        IN  /\ rule_sampled.limiter_calls = <<1>>
            /\ data = limit_result.data
            /\ rule_sampled.value.limiter_rate
                   = [scaled |-> limit_result.effective_rate]
            /\ rule_sampled.value.rule_rate = sampling_rules[FirstMatching].rate
            /\ rule_sampled.value.sampling_priority =
                   IF limit_result.allowed THEN SamplerKeep ELSE SamplerDrop
            /\ rule_sampled.value.priority_rate = NaN

\* C21: the hash test of a matched rule compares the product trace_id *
\* CONSTANT_RATE_HASH_FACTOR cut to 64 bits, the hashed_id of
\* PrioritySampler::sample, against max_hash(R): the limiter is left out
\* exactly when that value is above max_hash, and a matched rule of rate
\* 1.0 rejects no trace id, the limiter being called for every trace.
C21_RuleTestOnTruncatedHash ==
    (rule_sampled.called /\ Matching # {}) =>
        /\ rule_sampled.limiter_calls = <<>>
               <=> Less(RuleMaxHash, SubSeq(RuleHash, 1, 8))
        /\ sampling_rules[FirstMatching].rate = F64(1, 0) =>
               rule_sampled.limiter_calls = <<1>>

(***************************************************************************)
(* Claims about calls that find a Mutex poisoned.                          *)
(***************************************************************************)
\* C22: a call of allow(), sample() or configure() that cannot acquire the
\* lock returns the error at once, from its one lock() call, and changes
\* nothing of the limiter or of a sampler: the step records the failure on
\* a poisoned Mutex and leaves every other part of the state.
C22_LockFailureChangesNothing ==
    [][ \A m \in Mutexes :
            lock_failed'[m] # lock_failed[m] =>
                /\ poisoned[m]
                /\ lock_failed'[m].in_a_row = lock_failed[m].in_a_row + 1
                /\ \A other \in Mutexes \ {m} :
                       lock_failed'[other] = lock_failed[other]
                /\ UNCHANGED <<data, result, calls, priority_sampler, sampled,
                               served, configured, poisoned>> ]_vars

\* Each of allow(), sample() and configure() has returned the lock failure:
\* allow() on the limiter, the other two on sampler 1.
C22_Witness ==
    /\ lock_failed[LimiterMutex].ops = {"allow"}
    /\ lock_failed[1].ops = {"sample", "configure"}

\* C23: a lock failure fails the current call only: the call that follows
\* one on the same Mutex, be the Mutex poisoned by a panic in an earlier
\* critical section, acquires the lock, so that no Mutex fails two calls in
\* a row.
C23_LockFailureFailsOneCall ==
    \A m \in Mutexes : lock_failed[m].in_a_row <= 1

\* The locks thread t holds.
Held(t) ==
    (IF lock = t THEN {"limiter"} ELSE {})
        \cup (IF sampler_lock = t THEN {"sampler"} ELSE {})

\* C24: whatever the interleaving of sample() and update_priority_sampler()
\* calls on one RulesSampler, no thread holds the limiter's lock and the
\* priority sampler's lock at once, a thread holds a lock only inside the
\* component that owns it and holds none when it enters or waits for the
\* other, and while a call is under way some thread can take a step: no
\* deadlock is reachable.
C24_LocksNeverNested ==
    /\ \A t \in Threads :
           /\ Held(t) # {"limiter", "sampler"}
           /\ Held(t) = IF pc[t] = "allowing" THEN {"limiter"}
                        ELSE IF pc[t] \in {"sampling", "storing"} THEN {"sampler"}
                        ELSE {}
    /\ (\E t \in Threads : pc[t] # "idle") => ENABLED NextRulesThreads

\* One thread is inside Limiter::allow with the limiter's lock while the
\* other is inside PrioritySampler::configure with the sampler's, and a
\* call has returned before.
C24_Witness ==
    /\ \E t \in Threads : lock = t /\ pc[t] = "allowing"
    /\ \E t \in Threads : sampler_lock = t /\ pc[t] = "storing"
    /\ \E t \in Threads : returned[t].called

(***************************************************************************)
(* Claims about concurrent callers of the limiter.                         *)
(***************************************************************************)
\* The call of thread t as one sequential step on the data it locked.
Sequential(t) ==
    allow(frame[t].locked, frame[t].now, frame[t].tokens_requested)

\* C6: concurrent allow() calls are serialized by the lock, held for the
\* whole call: at most one thread is inside a call, every call leaves the
\* data and returns the result that the sequential allow() gives on the data
\* the previous call left, and the tokens granted since a refill never
\* exceed the tokens that refill left in the bucket.
C6_Serialized ==
    /\ \A t1, t2 \in Threads : (pc[t1] # "idle" /\ pc[t2] # "idle") => t1 = t2
    /\ \A t \in Threads :
          /\ pc[t] = "locked" => data = frame[t].locked
          /\ pc[t] = "rolled" => data = RollWindow(frame[t].locked, frame[t].now)
          /\ pc[t] \in {"refilled", "checked"} =>
                 data = BeforeDecision(frame[t].locked, frame[t].now)
          /\ pc[t] = "decided" =>
                 /\ data = Sequential(t).data
                 /\ frame[t].allowed = Sequential(t).allowed
          /\ (pc[t] = "idle" /\ returned[t].called) =>
                 /\ returned[t].allowed = Sequential(t).allowed
                 /\ returned[t].effective_rate = Sequential(t).effective_rate
    /\ (lock = 0 /\ calls > 0) =>
           \E t \in Threads : returned[t].called /\ data = Sequential(t).data
    /\ bucket.granted <= bucket.tokens
    /\ data.num_tokens = bucket.tokens - bucket.granted

\* Both threads have called allow(1) at the same instant on a limiter of
\* capacity 1: one was allowed, the other denied, and the first is inside
\* its next call.
C6_Witness ==
    /\ data.max_tokens = 1
    /\ returned[1].called /\ returned[2].called
    /\ returned[1].allowed # returned[2].allowed
    /\ frame[1].tokens_requested = 1 /\ frame[2].tokens_requested = 1
    /\ frame[1].now = frame[2].now
    /\ pc[1] = "idle" /\ pc[2] = "idle"
    /\ calls = 2

TypeOK ==
    /\ now \in 0..(MaxSeconds * SecMs)
    /\ Len(data.previous_rates) = HistoryLen

====
